---- MODULE Spec2Model ----
(***************************************************************************)
(* A model of the MacOS task dumper (src/mac/task_dumper.rs) and of the    *)
(* module list stream writer (src/mac/streams/module_list.rs).             *)
(*                                                                         *)
(* Three specifications share the module:                                  *)
(*   SpecMem    read_task_memory and read_string over a target task whose  *)
(*              address space is a set of page-aligned VM regions;         *)
(*   SpecModule read_module on one image;                                  *)
(*   SpecList   read_loaded_modules and write_module_list on an image list.*)
(*                                                                         *)
(* Scale.  u64 is modelled as a WordBits-bit unsigned integer with         *)
(* wrapping arithmetic, a page is 2^PageShift bytes, and the 4 KiB of      *)
(* read_string (one x86_64 page) is one page of the model.                 *)
(***************************************************************************)
EXTENDS Integers, Sequences, FiniteSets, TLC

VARIABLES
    \* ---- SpecMem: the target task and one call into the TaskDumper
    pagemap,      \* page number -> 0 (unmapped) or the tag of its VM region
    zeros,        \* addresses of the target that hold a zero byte
    bad,          \* addresses of the target that hold a byte that is not utf-8
    op,           \* the TaskDumper method called
    pc,           \* position inside the call
    arg,          \* arguments of the running read_task_memory
    window,       \* local_start/local_length: the window mach_vm_read mapped
    held,         \* kernel-mapped windows the dumper currently holds
    vmreads,      \* windows requested from mach_vm_read, in order
    deallocs,     \* windows passed to mach_vm_deallocate, in order
    buffer,       \* the Vec read_task_memory fills
    rtm,          \* the Result read_task_memory returned
    bound,        \* size_to_end of read_string: Ok(n) or Err
    result,       \* the Result of the method called
    \* ---- SpecModule: one call of read_module
    image,        \* the ImageInfo passed to read_module
    header,       \* the target's memory at image.load_address
    pathread,     \* what read_string returns for image.file_path
    mres,         \* the Result of read_module
    \* ---- SpecModule and SpecList
    buf,          \* the DumpBuf, a sequence of chunks
    env,          \* whether the DumpBuf accepted the writes of this call
    \* ---- SpecList: one call of read_loaded_modules or write_module_list
    read_images,  \* the Result of TaskDumper::read_images
    headers,      \* load address -> the target's memory at that address
    paths,        \* path pointer -> what read_string returns for it
    lop,          \* the MiniDumpWriter method called
    surviving,    \* images after sort and dedup
    built,        \* the Vec modules, each record with the image it came from
    lres,         \* the Result of read_loaded_modules
    wres          \* the Result of write_module_list

memvars == <<pagemap, zeros, bad, op, pc, arg, window, held, vmreads, deallocs,
             buffer, rtm, bound, result>>

modvars == <<image, header, pathread, mres>>
bufvars == <<buf, env>>
listvars == <<read_images, headers, paths, lop, surviving, built, lres, wres>>

vars == <<memvars, modvars, bufvars, listvars>>

(***************************************************************************)
(* Result and Option values.                                               *)
(***************************************************************************)
Ok(v) == [tag |-> "Ok", val |-> v]
Err(e) == [tag |-> "Err", err |-> e]
Some(v) == [tag |-> "Some", val |-> v]
None == [tag |-> "None"]
Unset == [tag |-> "Unset"]
IsOk(r) == r.tag = "Ok"
IsErr(r) == r.tag = "Err"

\* mach_call!: a kernel status that is not KERN_SUCCESS becomes this error
KernelError(syscall) == [kind |-> "Kernel", syscall |-> syscall]

(***************************************************************************)
(* Machine words.                                                          *)
(***************************************************************************)
WordBits == 5
PageShift == 2
NumPages == 4
MaxCount == 3

Word == 2 ^ WordBits
PageSize == 2 ^ PageShift
Wrap(x) == x % Word

RECURSIVE BitAndN(_, _, _)
BitAndN(a, b, n) ==
    IF n = 0 THEN 0
    ELSE (a % 2) * (b % 2) + 2 * BitAndN(a \div 2, b \div 2, n - 1)

BitAnd(a, b) == BitAndN(a, b, WordBits)
Neg(x) == Wrap(Word - x)

(***************************************************************************)
(* The target task's memory.                                               *)
(***************************************************************************)
Pages == 0 .. (NumPages - 1)
PageOf(a) == a \div PageSize
Mapped(a) == PageOf(a) \in Pages /\ pagemap[PageOf(a)] # 0

\* The byte the target holds at address a: 0, a byte no utf-8 text holds, or
\* a printable ASCII character that depends on the address
MemByte(a) ==
    IF a \in zeros THEN 0
    ELSE IF a \in bad THEN 255
    ELSE 33 + (a % 90)

\* The target's bytes at [a, a + n)
MemBytes(a, n) == [i \in 1 .. n |-> MemByte(a + i - 1)]

\* VM regions: maximal runs of pages with the same non-zero tag
RegionStartPage(p) ==
    CHOOSE s \in 0 .. p :
        /\ \A q \in s .. p : pagemap[q] = pagemap[p]
        /\ (s = 0 \/ pagemap[s - 1] # pagemap[p])
RegionEndPage(p) ==
    CHOOSE e \in (p + 1) .. NumPages :
        /\ \A q \in p .. (e - 1) : pagemap[q] = pagemap[p]
        /\ (e = NumPages \/ pagemap[e] # pagemap[p])

\* mach_vm_region_recurse: the region containing addr or, when addr is not
\* mapped, the first region after it; an error when there is none.
GetVmRegionKernel(addr) ==
    LET cand == {p \in Pages : p >= PageOf(addr) /\ pagemap[p] # 0}
    IN  IF cand = {} THEN Err(KernelError("mach_vm_region_recurse"))
        ELSE LET p == CHOOSE q \in cand : \A r \in cand : q <= r
                 base == RegionStartPage(p) * PageSize
                 size == (RegionEndPage(p) - RegionStartPage(p)) * PageSize
             IN  Ok([start |-> base, end |-> Wrap(base + size)])

get_vm_region(addr) == GetVmRegionKernel(addr)

\* mach_vm_read succeeds when every page of the window is mapped
VmReadOk(start, size) ==
    \A a \in start .. (start + size - 1) : Mapped(a)

(***************************************************************************)
(* TaskDumper::read_task_memory                                            *)
(***************************************************************************)
\* address & -page_size
PageAddress(address) == BitAnd(address, Neg(PageSize))

\* (address + length + page_size - 1) & -page_size
LastPageAddress(address, length) ==
    BitAnd(Wrap(address + length + PageSize - 1), Neg(PageSize))

\* The window handed to mach_vm_read: its start and its size in bytes
ReadWindow(address, length) ==
    [start |-> PageAddress(address),
     size |-> Wrap(LastPageAddress(address, length) - PageAddress(address))]

\* CopyOut with the offset inside the window dropped
CopyOutFromWindowStart(data, offset, esz, count) ==
    [j \in 1 .. count |-> SubSeq(data, (j - 1) * esz + 1, j * esz)]

\* slice::from_raw_parts(local_start.offset(address - page_address), count):
\* count elements of esz bytes each, taken from the mapped window
CopyOut(data, offset, esz, count) ==
    [j \in 1 .. count |-> SubSeq(data, offset + (j - 1) * esz + 1, offset + j * esz)]

\* The bytes of a Vec<T>, element after element
RECURSIVE Flatten(_)
Flatten(elems) ==
    IF elems = <<>> THEN <<>> ELSE Head(elems) \o Flatten(Tail(elems))

\* The calls of SpecMem leave the variables of the other specifications alone
MemFrame == UNCHANGED <<modvars, bufvars, listvars>>

\* Where control goes when read_task_memory returns r
ReturnFromRead(r) ==
    /\ rtm' = r
    /\ IF op = "read_task_memory"
       THEN pc' = "done" /\ result' = r
       ELSE pc' = "rs_read_returned" /\ UNCHANGED result

\* mach_call!(mach_vm_read(task, page_address, page_size, ..))?
RTM_VmRead ==
    /\ pc = "rtm_read"
    /\ MemFrame
    /\ LET w == ReadWindow(arg.address, arg.count * arg.esz)
       IN  /\ vmreads' = Append(vmreads, w)
           /\ IF VmReadOk(w.start, w.size)
              THEN /\ window' = [start |-> w.start, size |-> w.size,
                                 data |-> MemBytes(w.start, w.size)]
                   /\ held' = held \cup {w}
                   /\ pc' = "rtm_copy"
                   /\ UNCHANGED <<rtm, result>>
              ELSE /\ ReturnFromRead(Err(KernelError("mach_vm_read")))
                   /\ UNCHANGED <<window, held>>
    /\ UNCHANGED <<pagemap, zeros, bad, op, arg, deallocs, buffer, bound>>

\* buffer.extend_from_slice(task_buffer)
RTM_Copy ==
    /\ pc = "rtm_copy"
    /\ MemFrame
    /\ buffer' = CopyOut(window.data, Wrap(arg.address - window.start),
                         arg.esz, arg.count)
    /\ pc' = "rtm_dealloc"
    /\ UNCHANGED <<pagemap, zeros, bad, op, arg, window, held, vmreads,
                   deallocs, rtm, bound, result>>

\* RTM_Dealloc with the status of mach_vm_deallocate propagated by `?`
RTM_DeallocPropagates ==
    /\ pc = "rtm_dealloc"
    /\ MemFrame
    /\ \E kr \in {"KERN_SUCCESS", "KERN_FAILURE"} :
          /\ deallocs' = Append(deallocs, [start |-> window.start, size |-> window.size])
          /\ IF kr = "KERN_SUCCESS"
             THEN /\ held' = held \ {[start |-> window.start, size |-> window.size]}
                  /\ pc' = "rtm_ok"
                  /\ UNCHANGED <<rtm, result>>
             ELSE /\ held' = held
                  /\ ReturnFromRead(Err(KernelError("mach_vm_deallocate")))
    /\ UNCHANGED <<pagemap, zeros, bad, op, arg, window, vmreads, buffer, bound>>

\* let _res = mach_call!(mach_vm_deallocate(mach_task_self(), local_start,
\* local_length)): the status kr is dropped
RTM_Dealloc ==
    /\ pc = "rtm_dealloc"
    /\ MemFrame
    /\ \E kr \in {"KERN_SUCCESS", "KERN_FAILURE"} :
          /\ deallocs' = Append(deallocs, [start |-> window.start, size |-> window.size])
          /\ held' = IF kr = "KERN_SUCCESS"
                     THEN held \ {[start |-> window.start, size |-> window.size]}
                     ELSE held
    /\ pc' = "rtm_ok"
    /\ UNCHANGED <<pagemap, zeros, bad, op, arg, window, vmreads, buffer, rtm,
                   bound, result>>

\* Ok(buffer)
RTM_Return ==
    /\ pc = "rtm_ok"
    /\ MemFrame
    /\ ReturnFromRead(Ok(buffer))
    /\ UNCHANGED <<pagemap, zeros, bad, op, arg, window, held, vmreads,
                   deallocs, buffer, bound>>

(***************************************************************************)
(* TaskDumper::read_string                                                 *)
(***************************************************************************)
\* 4 * 1024, one page of the model
StrExtendLimit == PageSize

\* GetRegionSize without the test that the next region starts where this ends
GetRegionSizeNoGapTest(addr) ==
    LET region == get_vm_region(addr)
    IN  IF IsErr(region) THEN region
        ELSE LET size_to_end == Wrap(region.val.end - addr)
             IN  IF size_to_end < StrExtendLimit
                 THEN LET maybe_adjacent == get_vm_region(region.val.end)
                      IN  IF IsErr(maybe_adjacent) THEN maybe_adjacent
                          ELSE Ok(Wrap(size_to_end + Wrap(maybe_adjacent.val.end
                                                       - maybe_adjacent.val.start)))
                 ELSE Ok(size_to_end)

\* The closure get_region_size of read_string
GetRegionSize(addr) ==
    LET region == get_vm_region(addr)
    IN  IF IsErr(region) THEN region
        ELSE LET size_to_end == Wrap(region.val.end - addr)
             IN  IF size_to_end < StrExtendLimit
                 THEN LET maybe_adjacent == get_vm_region(region.val.end)
                      IN  IF IsErr(maybe_adjacent) THEN maybe_adjacent
                          ELSE IF maybe_adjacent.val.start = region.val.end
                          THEN Ok(Wrap(size_to_end + Wrap(maybe_adjacent.val.end
                                                       - maybe_adjacent.val.start)))
                          ELSE Ok(size_to_end)
                 ELSE Ok(size_to_end)

\* bytes.iter().position(|c| c == 0), then bytes.resize(null_pos, 0)
RECURSIVE TruncateAtNull(_)
TruncateAtNull(bytes) ==
    IF bytes = <<>> THEN <<>>
    ELSE IF Head(bytes) = 0 THEN <<>>
    ELSE <<Head(bytes)>> \o TruncateAtNull(Tail(bytes))

\* String::from_utf8 on the bytes the model's memory can hold
FromUtf8(bytes) ==
    IF \E i \in 1 .. Len(bytes) : bytes[i] >= 128
    THEN Err([kind |-> "FromUtf8"])
    ELSE Ok(bytes)

\* if let Ok(size_to_end) = get_region_size() { read_task_memory(addr, ..) }
\* else { Ok(None) }
RS_GetRegionSize ==
    /\ pc = "rs_start"
    /\ MemFrame
    /\ bound' = GetRegionSize(arg.address)
    /\ IF IsOk(bound')
       THEN /\ arg' = [arg EXCEPT !.count = bound'.val]
            /\ pc' = "rtm_read"
            /\ UNCHANGED result
       ELSE /\ result' = Ok(None)
            /\ pc' = "done"
            /\ UNCHANGED arg
    /\ UNCHANGED <<pagemap, zeros, bad, op, window, held, vmreads, deallocs,
                   buffer, rtm>>

\* read_task_memory(..)?, the truncation at the null, String::from_utf8
RS_Finish ==
    /\ pc = "rs_read_returned"
    /\ MemFrame
    /\ result' = IF IsErr(rtm) THEN rtm
                 ELSE LET s == FromUtf8(TruncateAtNull(Flatten(rtm.val)))
                      IN  IF IsErr(s) THEN s ELSE Ok(Some(s.val))
    /\ pc' = "done"
    /\ UNCHANGED <<pagemap, zeros, bad, op, arg, window, held, vmreads,
                   deallocs, buffer, rtm, bound>>

(***************************************************************************)
(* SpecMem: one call of read_task_memory or of read_string on a target.    *)
(***************************************************************************)
\* Addresses asked for: the pages that may be mapped, the page after them,
\* and the last page of the address space
Addresses ==
    (0 .. ((NumPages + 1) * PageSize - 1)) \cup ((Word - PageSize) .. (Word - 1))

\* Region tags are names: the first mapped page carries tag 1
Layouts ==
    {m \in [Pages -> 0 .. 2] :
        \A p \in Pages : m[p] = 2 => \E q \in 0 .. (p - 1) : m[q] = 1}

ElemSizes == {1, 2, 3}

InitMem ==
    /\ pagemap \in Layouts
    /\ op \in {"read_task_memory", "read_string"}
    /\ arg \in [address : Addresses, esz : ElemSizes, count : 0 .. MaxCount]
    /\ arg.address + arg.count * arg.esz <= Word
    /\ IF op = "read_task_memory"
       THEN /\ zeros = {} /\ bad = {}
            /\ pc = "rtm_read"
       ELSE /\ arg.esz = 1 /\ arg.count = 0
            /\ arg.address < (NumPages + 1) * PageSize
            /\ zeros \in {{}} \cup {{arg.address + d} : d \in 0 .. (2 * PageSize + 1)}
                          \cup {{arg.address + d, arg.address + d + 2} :
                                   d \in 0 .. (2 * PageSize + 1)}
            /\ bad \in {{}, {arg.address + 1}, {arg.address + PageSize}}
            /\ pc = "rs_start"
    /\ window = Unset
    /\ held = {}
    /\ vmreads = <<>>
    /\ deallocs = <<>>
    /\ buffer = <<>>
    /\ rtm = Unset
    /\ bound = Unset
    /\ result = Unset
    /\ image = Unset /\ header = Unset /\ pathread = Unset /\ mres = Unset
    /\ buf = <<>> /\ env = Unset
    /\ read_images = Unset /\ headers = Unset /\ paths = Unset /\ lop = "none"
    /\ surviving = <<>> /\ built = <<>> /\ lres = Unset /\ wres = Unset

NextMem ==
    \/ RS_GetRegionSize
    \/ RTM_VmRead
    \/ RTM_Copy
    \/ RTM_Dealloc
    \/ RTM_Return
    \/ RS_Finish

SpecMem == InitMem /\ [][NextMem]_vars

(***************************************************************************)
(* Properties of SpecMem.                                                  *)
(***************************************************************************)
Returned == pc \in {"done", "rs_read_returned"}
WindowKey == [start |-> window.start, size |-> window.size]

\* C7: read_task_memory issues one kernel read over a window that starts at
\* the page-aligned address at or below `address` and is a whole number of
\* pages covering [address, address + count * size_of(T)); on success it
\* returns exactly count elements whose bytes are the target's bytes of that
\* range, page-straddling ranges included.
C7_WindowCoversAndBytesIdentical ==
    LET length == arg.count * arg.esz
    IN  /\ Len(vmreads) <= 1
        /\ vmreads # <<>> =>
              /\ vmreads[1].start % PageSize = 0
              /\ vmreads[1].start <= arg.address
              /\ arg.address - vmreads[1].start < PageSize
              /\ vmreads[1].size % PageSize = 0
              /\ vmreads[1].start + vmreads[1].size >= arg.address + length
        /\ (rtm # Unset /\ IsOk(rtm)) =>
              /\ Len(vmreads) = 1
              /\ Len(rtm.val) = arg.count
              /\ \A j \in 1 .. Len(rtm.val) : Len(rtm.val[j]) = arg.esz
              /\ Flatten(rtm.val) = MemBytes(arg.address, length)

\* A successful read of several elements that starts inside a page and ends
\* in the next one
C7_Witness ==
    /\ op = "read_task_memory" /\ pc = "done" /\ IsOk(result)
    /\ arg.address % PageSize # 0
    /\ arg.count >= 2 /\ arg.esz = 3
    /\ PageOf(arg.address) # PageOf(arg.address + arg.count * arg.esz - 1)

\* C10: when read_task_memory has returned, the window a successful
\* mach_vm_read mapped has been passed to mach_vm_deallocate; the result is
\* then Ok(buffer) whether or not the release worked, and the only error
\* returned is that of the initial mach_vm_read.
C10_WindowReleasedBeforeReturn ==
    /\ (Returned /\ window # Unset) =>
          /\ \E i \in 1 .. Len(deallocs) : deallocs[i] = WindowKey
          /\ rtm = Ok(buffer)
    /\ (rtm # Unset /\ IsErr(rtm)) =>
          /\ rtm.err = KernelError("mach_vm_read")
          /\ window = Unset
          /\ deallocs = <<>>
    /\ (held # {}) => (window # Unset /\ held = {WindowKey})

\* read_task_memory returned Ok although mach_vm_deallocate failed
C10_Witness ==
    /\ op = "read_task_memory" /\ pc = "done"
    /\ window # Unset /\ held = {WindowKey}
    /\ Len(deallocs) = 1
    /\ IsOk(result) /\ result.val # <<>>

\* The VM region that contains a mapped address, and the region that starts
\* exactly where it ends, read off the page map
C8_Region(a) ==
    [start |-> RegionStartPage(PageOf(a)) * PageSize,
     end |-> RegionEndPage(PageOf(a)) * PageSize]
C8_HasContiguousNext(a) ==
    /\ RegionEndPage(PageOf(a)) \in Pages
    /\ pagemap[RegionEndPage(PageOf(a))] # 0
C8_Allowed(a) ==
    IF ~Mapped(a) THEN {}
    ELSE (a .. (C8_Region(a).end - 1)) \cup
         (IF C8_HasContiguousNext(a)
          THEN C8_Region(a).end .. (C8_Region(C8_Region(a).end).end - 1)
          ELSE {})
C8_FirstZero(a) ==
    CHOOSE z \in zeros : z >= a /\ \A y \in zeros : y >= a => z <= y

\* the range asked for stays inside the region of addr and one contiguous
\* follower, and the string returned is made of bytes of that range only
C8_NoForeignBytes ==
    op = "read_string" =>
       /\ (bound # Unset /\ IsOk(bound) /\ Mapped(arg.address)) =>
             (arg.address .. (arg.address + bound.val - 1)) \subseteq C8_Allowed(arg.address)
       /\ (pc = "done" /\ IsOk(result) /\ result.val # None) =>
             /\ Mapped(arg.address)
             /\ result.val.val = MemBytes(arg.address, Len(result.val.val))
             /\ (arg.address .. (arg.address + Len(result.val.val) - 1))
                   \subseteq C8_Allowed(arg.address)

\* a null-terminated text that begins in the region of addr and ends in the
\* contiguous region after it
C8_SpansBoth ==
    /\ op = "read_string"
    /\ Mapped(arg.address)
    /\ C8_HasContiguousNext(arg.address)
    /\ \E z \in zeros : z >= arg.address
    /\ C8_FirstZero(arg.address) >= C8_Region(arg.address).end
    /\ C8_FirstZero(arg.address) < C8_Region(C8_Region(arg.address).end).end
    /\ \A b \in bad : b < arg.address \/ b > C8_FirstZero(arg.address)

C8_ReturnedInFull ==
    result = Ok(Some(MemBytes(arg.address, C8_FirstZero(arg.address) - arg.address)))

\* C8 as stated: no foreign bytes, and with a contiguous following region a
\* null-terminated string spanning both regions is returned in full.
C8_Original ==
    /\ C8_NoForeignBytes
    /\ (C8_SpansBoth /\ pc = "done") => C8_ReturnedInFull

\* C8 amended: no foreign bytes, and with a contiguous following region a
\* null-terminated string spanning both regions is returned in full when
\* fewer than 4096 bytes lie between addr and the end of its region.
C8_Amended ==
    /\ C8_NoForeignBytes
    /\ (/\ C8_SpansBoth /\ pc = "done"
        /\ C8_Region(arg.address).end - arg.address < StrExtendLimit)
          => C8_ReturnedInFull

\* a string returned in full across the boundary of two contiguous regions
C8_Witness ==
    /\ C8_SpansBoth /\ pc = "done"
    /\ C8_Region(arg.address).end - arg.address < StrExtendLimit
    /\ C8_ReturnedInFull
    /\ Len(result.val.val) > C8_Region(arg.address).end - arg.address

(***************************************************************************)
(* 32-bit values, kept as two 16-bit halves <<high, low>>.                 *)
(***************************************************************************)
Half == 2 ^ 16
BitAnd16(a, b) == BitAndN(a, b, 16)
BitOr16(a, b) == a + b - BitAndN(a, b, 16)
U32And(v, m) == <<BitAnd16(v[1], m[1]), BitAnd16(v[2], m[2])>>
U32Or(v, w) == <<BitOr16(v[1], w[1]), BitOr16(v[2], w[2])>>
\* v >> 16
U32Shr16(v) == <<0, v[1]>>
\* v << 8: the bits shifted past bit 31 are lost
U32Shl8(v) == <<(v[1] * 256 + (v[2] * 256) \div Half) % Half, (v[2] * 256) % Half>>
U32Zero == <<0, 0>>

\* version >> 16
FileVersionHi(version) == U32Shr16(version)

\* FileVersionLo with the minor version shifted by a whole half-word
FileVersionLoShift16(version) ==
    U32Or(<<U32And(version, <<0, 65280>>)[2], 0>>, U32And(version, <<0, 255>>))

\* ((version & 0xff00) << 8) | (version & 0xff)
FileVersionLo(version) ==
    U32Or(U32Shl8(U32And(version, <<0, 65280>>)), U32And(version, <<0, 255>>))

(***************************************************************************)
(* Images, load commands and module records.                               *)
(***************************************************************************)
\* b"__TEXT\0"
TextSegmentName == <<"_", "_", "T", "E", "X", "T", "NUL">>

\* format::VS_FFI_SIGNATURE and format::VS_FFI_STRUCVERSION
VsFfiSignature == <<65263, 1213>>
VsFfiStrucVersion == <<1, 0>>

\* size of CvInfoPdb: cv_signature u32, signature GUID, age u32
CvInfoPdbSize == 24

DefaultVersionInfo ==
    [signature |-> U32Zero, struct_version |-> U32Zero,
     file_version_hi |-> U32Zero, file_version_lo |-> U32Zero]

\* TaskDumper::read_load_commands on the memory at the image's load address
ReadLoadCommands(hdr) ==
    IF ~hdr.readable THEN Err(KernelError("mach_vm_read"))
    ELSE IF ~hdr.magic_ok THEN Err([kind |-> "InvalidMachHeader"])
    ELSE Ok(hdr.cmds)

\* One iteration of the match in read_module's loop
ScanOne(lc, img, st) ==
    CASE lc.cmd = "Segment" /\ st.sizes = None ->
            IF SubSeq(lc.segment_name, 1, 7) = TextSegmentName
            THEN [st EXCEPT !.sizes =
                     Some([vm_addr |-> lc.vm_addr,
                           vm_size |-> lc.vm_size,
                           slide |-> IF lc.file_off = 0 /\ lc.file_size # 0
                                     THEN Wrap(img.load_address - lc.vm_addr)
                                     ELSE 0])]
            ELSE st
      [] lc.cmd = "Dylib" /\ st.version = None ->
            [st EXCEPT !.version = Some(lc.current_version)]
      [] lc.cmd = "Uuid" /\ st.uuid = None ->
            [st EXCEPT !.uuid = Some(lc.uuid)]
      [] OTHER -> st

\* for lc in load_commands.iter() { .. if all three are found { break } }
RECURSIVE ScanFrom(_, _, _, _)
ScanFrom(cmds, i, img, st) ==
    IF i > Len(cmds) THEN st
    ELSE CHOOSE out \in
            {IF st1.sizes # None /\ st1.version # None /\ st1.uuid # None
             THEN st1
             ELSE ScanFrom(cmds, i + 1, img, st1) :
                st1 \in {ScanOne(cmds[i], img, st)}} : TRUE

ScanCommands(cmds, img) ==
    ScanFrom(cmds, 1, img, [sizes |-> None, version |-> None, uuid |-> None])

\* file_path.rfind('/'): the last index of the separator, 0 when there is none
RFindSlash(path) ==
    LET hits == {i \in 1 .. Len(path) : path[i] = "/"}
    IN  IF hits = {} THEN 0 ELSE CHOOSE i \in hits : \A j \in hits : j <= i

UnknownName == <<"<", "U", "n", "k", "n", "o", "w", "n", ">">>

\* The name stored after the CodeView record
DisplayName(file_path) ==
    IF RFindSlash(file_path) # 0
    THEN SubSeq(file_path, RFindSlash(file_path) + 1, Len(file_path))
    ELSE IF file_path = <<>> THEN UnknownName
    ELSE file_path

\* FilePath with a failed read_string taken as the empty path as well
FilePathErrAsEmpty(img, pathres) ==
    IF img.file_path # 0
    THEN IF IsErr(pathres) \/ pathres.val = None THEN Ok(<<>>) ELSE Ok(pathres.val.val)
    ELSE Ok(<<>>)

\* if image.file_path != 0 { dumper.read_string(image.file_path)?
\*     .unwrap_or_default() } else { String::new() }
FilePath(img, pathres) ==
    IF img.file_path # 0
    THEN IF IsErr(pathres) THEN pathres
         ELSE IF pathres.val = None THEN Ok(<<>>)
         ELSE Ok(pathres.val.val)
    ELSE Ok(<<>>)

\* The version_info of the record: filled in only for an image that has an
\* LC_ID_DYLIB command
VersionInfo(version) ==
    IF version # None
    THEN [signature |-> VsFfiSignature,
          struct_version |-> VsFfiStrucVersion,
          file_version_hi |-> FileVersionHi(version.val),
          file_version_lo |-> FileVersionLo(version.val)]
    ELSE DefaultVersionInfo

\* image_version.is_none()
IsMainReversed(version) == version # None
IsMainExecutable(version) == version = None

\* MiniDumpWriter::read_module.  hdr is the target's memory at the image's
\* load address, pathres what read_string returns for its path pointer,
\* buf0 the DumpBuf and buf_ok whether the DumpBuf accepts the writes.
\* A location in the DumpBuf is the position of the chunk in it.
ReadModule(img, hdr, pathres, buf0, buf_ok) ==
    LET load_commands == ReadLoadCommands(hdr)
        failed(e) == [res |-> Err(e), buf |-> buf0]
    IN  IF IsErr(load_commands) THEN failed(load_commands.err)
        ELSE
        LET st == ScanCommands(load_commands.val, img)
            file_path == FilePath(img, pathres)
        IN  IF st.sizes = None THEN failed([kind |-> "InvalidMachHeader"])
            ELSE IF st.uuid = None THEN failed([kind |-> "UnknownUuid"])
            ELSE IF IsErr(file_path) THEN failed(file_path.err)
            ELSE IF ~buf_ok THEN failed([kind |-> "Io"])
            ELSE
            LET name == DisplayName(file_path.val)
                buf1 == Append(buf0, [kind |-> "string16", text |-> file_path.val])
                buf2 == Append(buf1, [kind |-> "CvInfoPdb", cv_signature |-> "Pdb70",
                                      signature |-> st.uuid.val, age |-> 0])
                buf3 == Append(Append(buf2, [kind |-> "bytes", text |-> name]),
                               [kind |-> "bytes", text |-> <<"NUL">>])
                raw_module ==
                    [base_of_image |-> Wrap(st.sizes.val.vm_addr + st.sizes.val.slide),
                     size_of_image |-> st.sizes.val.vm_size,
                     module_name_rva |-> Len(buf1),
                     version_info |-> VersionInfo(st.version),
                     cv_record |-> [rva |-> Len(buf2),
                                    size |-> CvInfoPdbSize + Len(name) + 1]]
            IN  [res |-> Ok([module |-> raw_module,
                             is_main_executable |-> IsMainExecutable(st.version)]),
                 buf |-> buf3]

(***************************************************************************)
(* SpecModule: one call of read_module on one image.                       *)
(***************************************************************************)
MaxCmds == 3

Segment(name, vm_addr, file_off, file_size) ==
    [cmd |-> "Segment", segment_name |-> name, vm_addr |-> vm_addr, vm_size |-> 8,
     file_off |-> file_off, file_size |-> file_size]
Dylib(v) == [cmd |-> "Dylib", current_version |-> v]
Uuid(u) == [cmd |-> "Uuid", uuid |-> u]

Pad == <<"NUL", "NUL">>
DataSegmentName == <<"_", "_", "D", "A", "T", "A", "NUL">>
TextExecSegmentName == <<"_", "_", "T", "E", "X", "T", "_", "E", "X", "E", "C">>

\* 0, 0x00020105, 0xFFFFFFFF, 0x0001FF00, 0x800000FF, 0x12345678
Versions ==
    {<<0, 0>>, <<2, 261>>, <<65535, 65535>>, <<1, 65280>>, <<32768, 255>>,
     <<4660, 22136>>}

Segments ==
    {Segment(TextSegmentName \o Pad, 4, 0, 8),
     Segment(TextSegmentName \o Pad, 20, 4, 8),
     Segment(TextSegmentName \o Pad, 12, 0, 0),
     Segment(DataSegmentName \o Pad, 4, 0, 8),
     Segment(TextExecSegmentName, 4, 0, 8)}

Commands ==
    Segments \cup {Dylib(v) : v \in Versions} \cup {Uuid("u1"), Uuid("u2")}
        \cup {[cmd |-> "Other"]}

CommandLists == UNION {[1 .. n -> Commands] : n \in 0 .. MaxCmds}

FilePaths ==
    {<<>>, <<"a">>, <<"/", "a">>, <<"/", "u", "/", "b">>, <<"a", "/">>}

\* What read_string can return (see RS_GetRegionSize, RS_Finish)
PathReads ==
    {Err(KernelError("mach_vm_read")), Err([kind |-> "FromUtf8"]), Ok(None)}
        \cup {Ok(Some(p)) : p \in FilePaths}

ImageInfo(load_address, file_path) ==
    [load_address |-> load_address, file_path |-> file_path, file_mod_date |-> 0]

InitModule ==
    /\ image \in {ImageInfo(a, f) : a \in {2, 8}, f \in {0, 5}}
    /\ header \in [readable : BOOLEAN, magic_ok : BOOLEAN, cmds : CommandLists]
    /\ (header.readable /\ header.magic_ok) \/ header.cmds = <<>>
    /\ header.readable \/ header.magic_ok
    /\ pathread \in PathReads
    /\ image.file_path = 0 => pathread = Ok(None)
    /\ mres = Unset
    /\ buf = <<>> /\ env = Unset
    /\ pagemap = Unset /\ zeros = {} /\ bad = {} /\ op = "none" /\ pc = "none"
    /\ arg = Unset /\ window = Unset /\ held = {} /\ vmreads = <<>>
    /\ deallocs = <<>> /\ buffer = <<>> /\ rtm = Unset /\ bound = Unset
    /\ result = Unset
    /\ read_images = Unset /\ headers = Unset /\ paths = Unset /\ lop = "none"
    /\ surviving = <<>> /\ built = <<>> /\ lres = Unset /\ wres = Unset

CallReadModule ==
    /\ mres = Unset
    /\ \E buf_ok \in BOOLEAN :
          LET r == ReadModule(image, header, pathread, buf, buf_ok)
          IN  /\ mres' = r.res
              /\ buf' = r.buf
              /\ env' = [buf_ok |-> buf_ok]
    /\ UNCHANGED <<image, header, pathread>>
    /\ UNCHANGED <<memvars, listvars>>

NextModule == CallReadModule

SpecModule == InitModule /\ [][NextModule]_vars

(***************************************************************************)
(* Properties of SpecModule.                                               *)
(***************************************************************************)
HeaderValid(hdr) == hdr.readable /\ hdr.magic_ok
HasTextSegment(hdr) ==
    \E i \in 1 .. Len(hdr.cmds) :
        /\ hdr.cmds[i].cmd = "Segment"
        /\ SubSeq(hdr.cmds[i].segment_name, 1, 7) = TextSegmentName
HasUuid(hdr) == \E i \in 1 .. Len(hdr.cmds) : hdr.cmds[i].cmd = "Uuid"
HasDylib(hdr) == \E i \in 1 .. Len(hdr.cmds) : hdr.cmds[i].cmd = "Dylib"
FirstDylibVersion(hdr) ==
    hdr.cmds[CHOOSE i \in 1 .. Len(hdr.cmds) :
                /\ hdr.cmds[i].cmd = "Dylib"
                /\ \A j \in 1 .. (i - 1) : hdr.cmds[j].cmd # "Dylib"].current_version

\* The image can be turned into a record but for its path
C6_Buildable ==
    /\ mres # Unset
    /\ image.file_path # 0
    /\ HeaderValid(header) /\ HasTextSegment(header) /\ HasUuid(header)
    /\ env.buf_ok

\* The record is produced with the empty path and the name "<Unknown>"
C6_BuiltWithEmptyPath ==
    /\ IsOk(mres)
    /\ buf[mres.val.module.module_name_rva] = [kind |-> "string16", text |-> <<>>]
    /\ buf[mres.val.module.cv_record.rva + 1] = [kind |-> "bytes", text |-> UnknownName]
    /\ mres.val.module.cv_record.size = CvInfoPdbSize + Len(UnknownName) + 1

\* C6 as stated: a read_string that fails (an error, or None) for a non-zero
\* path pointer leaves the image alive with the empty path and "<Unknown>".
C6_Original ==
    (C6_Buildable /\ (IsErr(pathread) \/ pathread = Ok(None)))
        => C6_BuiltWithEmptyPath

\* C6 amended: only a read_string that returns None is taken as the empty
\* path, with the name "<Unknown>"; a read_string that returns an error makes
\* read_module return that error, so the image gets no record.
C6_Amended ==
    /\ (C6_Buildable /\ pathread = Ok(None)) => C6_BuiltWithEmptyPath
    /\ (C6_Buildable /\ IsErr(pathread)) => mres = Err(pathread.err)

C6_Witness ==
    /\ C6_Buildable /\ pathread = Ok(None) /\ C6_BuiltWithEmptyPath
    /\ HasDylib(header)

\* C9: with an identification command of packed version v, version_hi is
\* the major version (bits 16-31), version_lo holds the minor version (bits
\* 8-15) in its upper half-word and the bugfix version (bits 0-7) in its
\* lower half-word, and the shift loses no bit; without an identification
\* command the version fields keep their default.
C9_VersionRepacked ==
    (mres # Unset /\ IsOk(mres)) =>
        IF HasDylib(header)
        THEN LET v == FirstDylibVersion(header)
                 info == mres.val.module.version_info
                 masked == U32And(v, <<0, 65280>>)
             IN  /\ info.file_version_hi = <<0, v[1]>>
                 /\ info.file_version_lo = <<v[2] \div 256, v[2] % 256>>
                 /\ masked[1] * 256 + (masked[2] * 256) \div Half < Half
                 /\ info.signature = VsFfiSignature
        ELSE mres.val.module.version_info = DefaultVersionInfo

\* 0x00020105 gives hi 0x00000002 and lo 0x00010005
C9_Witness ==
    /\ mres # Unset /\ IsOk(mres)
    /\ HasDylib(header) /\ FirstDylibVersion(header) = <<2, 261>>
    /\ mres.val.module.version_info.file_version_hi = <<0, 2>>
    /\ mres.val.module.version_info.file_version_lo = <<1, 5>>

(***************************************************************************)
(* MiniDumpWriter::read_loaded_modules and write_module_list               *)
(***************************************************************************)
\* The sort left out
SortSkipped(images) == images

\* images.sort(): a stable sort with ImageInfo's Ord, which compares
\* load_address alone.  The element at index i goes after the elements with
\* a smaller load_address and after the earlier ones with the same.
SortImages(images) ==
    LET rank(i) ==
            Cardinality({j \in 1 .. Len(images) :
                            \/ images[j].load_address < images[i].load_address
                            \/ /\ images[j].load_address = images[i].load_address
                               /\ j <= i})
    IN  [k \in 1 .. Len(images) |->
            images[CHOOSE i \in 1 .. Len(images) : rank(i) = k]]

\* images.dedup(): of consecutive elements equal by ImageInfo's PartialEq
\* (equal load_address) the first is kept
DedupImages(images) ==
    LET kept == {i \in 1 .. Len(images) :
                    i = 1 \/ images[i - 1].load_address # images[i].load_address}
    IN  [k \in 1 .. Cardinality(kept) |->
            images[CHOOSE i \in kept : Cardinality({j \in kept : j <= i}) = k]]

\* The body of the loop of read_loaded_modules: r is what read_module
\* returned for image
PushModule(acc, img, r) ==
    IF IsOk(r.res)
    THEN IF r.res.val.is_main_executable
         THEN [modules |-> <<[module |-> r.res.val.module, image |-> img,
                              is_main_executable |-> TRUE]>> \o acc.modules,
               has_main_executable |-> TRUE,
               buf |-> r.buf]
         ELSE [modules |-> Append(acc.modules,
                                  [module |-> r.res.val.module, image |-> img,
                                   is_main_executable |-> FALSE]),
               has_main_executable |-> acc.has_main_executable,
               buf |-> r.buf]
    ELSE acc

\* for image in images { if let Ok((module, is_main_executable)) =
\*     self.read_module(image) { .. } }
RECURSIVE BuildFrom(_, _, _, _)
BuildFrom(images, i, acc, buf_ok) ==
    IF i > Len(images) THEN acc
    ELSE CHOOSE out \in
            {BuildFrom(images, i + 1, next, buf_ok) :
                next \in {PushModule(acc, images[i], r) :
                            r \in {ReadModule(images[i],
                                              headers[images[i].load_address],
                                              paths[images[i].file_path],
                                              acc.buf, buf_ok)}}} : TRUE

\* LoadedModulesResult without the test of has_main_executable
LoadedModulesResultUnchecked(has_main_executable, images) == Ok(images)

\* if !has_main_executable { Err(WriterError::NoExecutableImage) }
\* else { Ok(images) }
LoadedModulesResult(has_main_executable, images) ==
    IF ~has_main_executable THEN Err([kind |-> "NoExecutableImage"])
    ELSE Ok(images)

\* MiniDumpWriter::read_loaded_modules.  ri is what read_images returns.
ReadLoadedModules(ri, buf0, buf_ok) ==
    IF IsErr(ri)
    THEN [res |-> ri, surviving |-> <<>>, built |-> <<>>, buf |-> buf0]
    ELSE CHOOSE out \in
            {[res |-> LoadedModulesResult(acc.has_main_executable, images),
              surviving |-> images,
              built |-> acc.modules,
              buf |-> acc.buf] :
                 acc \in {BuildFrom(images, 1,
                                    [modules |-> <<>>,
                                     has_main_executable |-> FALSE,
                                     buf |-> buf0], buf_ok) :
                             images \in {DedupImages(SortImages(ri.val))}},
                 images \in {DedupImages(SortImages(ri.val))}} : TRUE

\* WriteModuleList with the error of read_loaded_modules propagated
WriteModuleListPropagates(lr, buf0, alloc_ok) ==
    IF IsErr(lr) THEN [res |-> lr, buf |-> buf0]
    ELSE IF ~alloc_ok THEN [res |-> Err([kind |-> "Io"]), buf |-> buf0]
    ELSE [res |-> Ok([stream_type |-> "ModuleListStream",
                      location |-> [rva |-> Len(buf0) + 1,
                                    data_size |-> [u32s |-> 1, modules |-> Len(lr.val)]]]),
          buf |-> Append(Append(buf0, [kind |-> "u32", val |-> Len(lr.val)]),
                         [kind |-> "array", items |-> lr.val])]

\* MiniDumpWriter::write_module_list.  lr is what read_loaded_modules
\* returned; data_size counts the u32 header and the records after it.
WriteModuleList(lr, buf0, alloc_ok) ==
    LET modules == IF IsOk(lr) THEN lr.val ELSE <<>>
        buf1 == Append(buf0, [kind |-> "u32", val |-> Len(modules)])
    IN  IF ~alloc_ok THEN [res |-> Err([kind |-> "Io"]), buf |-> buf0]
        ELSE [res |-> Ok([stream_type |-> "ModuleListStream",
                          location |->
                              [rva |-> Len(buf1),
                               data_size |->
                                   IF modules # <<>>
                                   THEN [u32s |-> 1, modules |-> Len(modules)]
                                   ELSE [u32s |-> 1, modules |-> 0]]]),
              buf |-> IF modules # <<>>
                      THEN Append(buf1, [kind |-> "array", items |-> modules])
                      ELSE buf1]

(***************************************************************************)
(* SpecList: one call of read_loaded_modules or of write_module_list.      *)
(***************************************************************************)
MaxImages == 3

LoadAddrs == {8, 16, 24}
PathPtrs == {0, 5}

ImageLists ==
    UNION {[1 .. n -> {ImageInfo(a, f) : a \in LoadAddrs, f \in PathPtrs}] :
              n \in 0 .. MaxImages}

MainHeader ==
    [readable |-> TRUE, magic_ok |-> TRUE,
     cmds |-> <<Segment(TextSegmentName \o Pad, 4, 0, 8), Uuid("u1")>>]
Headers ==
    {MainHeader,
     [readable |-> TRUE, magic_ok |-> TRUE,
      cmds |-> <<Segment(TextSegmentName \o Pad, 4, 0, 8), Dylib(<<2, 261>>),
                 Uuid("u2")>>],
     [readable |-> TRUE, magic_ok |-> TRUE,
      cmds |-> <<Dylib(<<1, 65280>>), Segment(TextSegmentName \o Pad, 20, 4, 8),
                 Uuid("u2")>>],
     [readable |-> TRUE, magic_ok |-> TRUE,
      cmds |-> <<Segment(TextSegmentName \o Pad, 4, 0, 8), Dylib(<<0, 0>>)>>]}

Listed(a) ==
    IsOk(read_images) /\ \E i \in 1 .. Len(read_images.val) :
                            read_images.val[i].load_address = a
PathListed(f) ==
    IsOk(read_images) /\ \E i \in 1 .. Len(read_images.val) :
                            read_images.val[i].file_path = f

\* The memory no listed image points to is left out of the state
InitList ==
    /\ read_images \in {Err(KernelError("task_info"))} \cup {Ok(l) : l \in ImageLists}
    /\ headers \in [LoadAddrs -> Headers]
    /\ \A a \in LoadAddrs : ~Listed(a) => headers[a] = MainHeader
    /\ paths \in [PathPtrs -> {Err(KernelError("mach_vm_read")), Ok(None),
                               Ok(Some(<<"/", "u", "/", "b">>))}]
    /\ \A f \in PathPtrs : (f = 0 \/ ~PathListed(f)) => paths[f] = Ok(None)
    /\ lop = "none"
    /\ surviving = <<>> /\ built = <<>> /\ lres = Unset /\ wres = Unset
    /\ buf = <<>> /\ env = Unset
    /\ pagemap = Unset /\ zeros = {} /\ bad = {} /\ op = "none" /\ pc = "none"
    /\ arg = Unset /\ window = Unset /\ held = {} /\ vmreads = <<>>
    /\ deallocs = <<>> /\ buffer = <<>> /\ rtm = Unset /\ bound = Unset
    /\ result = Unset
    /\ image = Unset /\ header = Unset /\ pathread = Unset /\ mres = Unset

CallReadLoadedModules ==
    /\ lop = "none"
    /\ \E buf_ok \in BOOLEAN :
          \E r \in {ReadLoadedModules(read_images, buf, buf_ok)} :
              /\ lres' = r.res
              /\ surviving' = r.surviving
              /\ built' = r.built
              /\ buf' = r.buf
              /\ env' = [buf_ok |-> buf_ok]
    /\ lop' = "read_loaded_modules"
    /\ UNCHANGED <<read_images, headers, paths, wres>>
    /\ UNCHANGED <<memvars, modvars>>

CallWriteModuleList ==
    /\ lop = "none"
    /\ \E buf_ok \in BOOLEAN, alloc_ok \in BOOLEAN :
          \E r \in {ReadLoadedModules(read_images, buf, buf_ok)} :
          \E w \in {WriteModuleList(r.res, r.buf, alloc_ok)} :
              /\ lres' = r.res
              /\ surviving' = r.surviving
              /\ built' = r.built
              /\ wres' = w.res
              /\ buf' = w.buf
              /\ env' = [buf_ok |-> buf_ok, alloc_ok |-> alloc_ok]
    /\ lop' = "write_module_list"
    /\ UNCHANGED <<read_images, headers, paths>>
    /\ UNCHANGED <<memvars, modvars>>

NextList ==
    \/ CallReadLoadedModules
    \/ CallWriteModuleList

SpecList == InitList /\ [][NextList]_vars

(***************************************************************************)
(* Properties of SpecList.                                                 *)
(***************************************************************************)
NoExecutableImage == Err([kind |-> "NoExecutableImage"])
MainsBuilt == {i \in 1 .. Len(built) : built[i].is_main_executable}
LoadAddressesOf(images) == {images[i].load_address : i \in 1 .. Len(images)}

\* C1: a successful read_loaded_modules returns the constructed module
\* records, the record of the main executable at index 0 and the records
\* after it in strictly ascending base_of_image order.
C1_MainFirstRestAscending ==
    (lop = "read_loaded_modules" /\ IsOk(lres)) =>
        /\ lres.val = [i \in 1 .. Len(built) |-> built[i].module]
        /\ built # <<>> /\ built[1].is_main_executable
        /\ \A i, j \in 2 .. Len(built) :
              i < j => built[i].module.base_of_image < built[j].module.base_of_image

\* C2: when read_images succeeds and every listed image has an
\* identification command, read_loaded_modules returns NoExecutableImage,
\* however many records were built.
C2_NoMainIsAnError ==
    (/\ lop # "none" /\ IsOk(read_images)
     /\ \A i \in 1 .. Len(read_images.val) :
           HasDylib(headers[read_images.val[i].load_address]))
        => lres = NoExecutableImage

\* two records were built, none of them for a main executable
C2_Witness ==
    /\ lop = "read_loaded_modules" /\ IsOk(read_images)
    /\ \A i \in 1 .. Len(read_images.val) :
          HasDylib(headers[read_images.val[i].load_address])
    /\ Len(built) >= 2
    /\ lres = NoExecutableImage

EmptyListEntry ==
    Ok([stream_type |-> "ModuleListStream",
        location |-> [rva |-> Len(buf), data_size |-> [u32s |-> 1, modules |-> 0]]])

\* C3 as stated: with the images enumerated and no main executable among
\* them write_module_list returns an error, and the only failure it turns
\* into an empty module list is that of read_images.
C3_Original ==
    lop = "write_module_list" =>
        /\ (IsOk(read_images) /\ lres = NoExecutableImage) => IsErr(wres)
        /\ (IsErr(lres) /\ IsOk(wres)) => IsErr(read_images)

\* C3 amended: write_module_list turns every failure of
\* read_loaded_modules, the missing main executable included, into an empty
\* module list and returns its directory entry; it returns an error only
\* when the DumpBuf refuses the allocation.
C3_Amended ==
    lop = "write_module_list" =>
        /\ IsErr(wres) <=> ~env.alloc_ok
        /\ (IsErr(lres) /\ env.alloc_ok) =>
              /\ wres = EmptyListEntry
              /\ buf[Len(buf)] = [kind |-> "u32", val |-> 0]

\* the images were enumerated, records were built, none for a main
\* executable, and write_module_list returned the entry of an empty list
C3_Witness ==
    /\ lop = "write_module_list"
    /\ IsOk(read_images) /\ built # <<>>
    /\ lres = NoExecutableImage
    /\ wres = EmptyListEntry

\* C4 as stated: a successful read_loaded_modules has built exactly one
\* record for an image without an identification command.
C4_Original ==
    (lop # "none" /\ IsOk(lres)) => Cardinality(MainsBuilt) = 1

\* C4 amended: read_loaded_modules succeeds exactly when it has built at
\* least one record for an image without an identification command; two or
\* more such images still give a successful result.
C4_Amended ==
    lop # "none" => (IsOk(lres) <=> Cardinality(MainsBuilt) >= 1)

\* a successful result with two main executables
C4_Witness ==
    /\ lop = "read_loaded_modules" /\ IsOk(lres)
    /\ Cardinality(MainsBuilt) = 2

\* C5: after sort and dedup no two surviving descriptors have the same
\* load_address and every listed load_address survives, whatever the order,
\* the multiplicity and the paths of the descriptors read_images returned;
\* at most one record is built per load_address.
C5_OneDescriptorPerLoadAddress ==
    (lop # "none" /\ IsOk(read_images)) =>
        /\ \A i, j \in 1 .. Len(surviving) :
              i < j => surviving[i].load_address < surviving[j].load_address
        /\ \A i \in 1 .. Len(surviving) :
              \E k \in 1 .. Len(read_images.val) : surviving[i] = read_images.val[k]
        /\ LoadAddressesOf(surviving) = LoadAddressesOf(read_images.val)
        /\ \A i, j \in 1 .. Len(built) :
              i # j => built[i].image.load_address # built[j].image.load_address

\* an image listed twice with different paths, another image between the two
C5_Witness ==
    /\ lop = "read_loaded_modules" /\ IsOk(read_images)
    /\ Len(read_images.val) = 3
    /\ read_images.val[1].load_address = read_images.val[3].load_address
    /\ read_images.val[1].file_path # read_images.val[3].file_path
    /\ read_images.val[2].load_address < read_images.val[1].load_address
    /\ Len(surviving) = 2 /\ Len(built) = 2

====
